---- MODULE Spec2Model ----
(***************************************************************************)
(* Model of src/ThreadPool.cpp: class ThreadPool (constructor, evaluate),  *)
(* struct ThreadPool::ThreadManager (constructor, execute), the task       *)
(* closure built in evaluate, the arithmetic functions and the dispatch    *)
(* loop of main.                                                           *)
(*                                                                         *)
(* Threads interleave at the granularity of one shared-memory access or    *)
(* one synchronisation operation per step.  The read of                    *)
(* ThreadManager::free at line 55 is made without m_mxQueue while execute  *)
(* writes it at line 97: the racing read returns the value before or the   *)
(* value after the write, which the interleaving of CallerScan with        *)
(* WorkerSetFree produces.  main is followed to the end of its dispatch    *)
(* loop (line 185); the dump routine and the timed wait before it are not  *)
(* modelled.                                                               *)
(***************************************************************************)
EXTENDS Integers, Sequences, FiniteSets, TLC

\* ---------------------------------------------------------------- bounds
\* Largest worker count handed to the constructor.
NWorkers == 2
\* Largest number of threads calling evaluate concurrently.
NCallers == 2
\* Number of evaluation records of main's list that are dispatched when one
\* thread dispatches them, as in main.
NTasks == 4
\* Number of evaluation records dispatched when several threads share the list.
NConcTasks == 3
\* Number of spurious wake-ups of condition_variable::wait in one run.
MaxSpurious == 1

\* ------------------------------------------------------- program constants
nFuncs == 4

VARIABLES
    pool,           \* "none" before construction, "ok", or "threw"
    m_nThreads,     \* ThreadPool::m_nThreads
    free,           \* ThreadManager::free, by worker ordinal
    functionsQueue, \* ThreadManager::functionsQueue, by worker ordinal
    m_mxQueue,      \* owner of ThreadManager::m_mxQueue, by worker ordinal
    wpc,            \* position of each worker thread inside execute
    wcur,           \* the local copy f of execute (an evaluation index)
    result,         \* evalStruct::result, by evaluation index
    readyFlag,      \* evalStruct::readyFlag, by evaluation index
    nCallers,       \* number of threads that call evaluate
    cpc,            \* position of each calling thread
    ci,             \* the loop variable i of evaluate, by caller
    scheduled,      \* the local scheduled of evaluate, by caller
    ctask,          \* the evaluation index a caller is dispatching
    nextEval,       \* the loop variable i of main's dispatch loop
    spurious,       \* spurious wake-ups so far
    \* history variables (observations of the current evaluate call)
    startFree,      \* workers whose flag was true when the call began
    noFinish,       \* no worker set its flag to true since the call began
    busySeen,       \* at some instant of the call every flag was false
    stayedFree,     \* workers whose flag was true at every instant of the call
    claimed,        \* worker on which the call flipped the flag, or -1
    effects,        \* what the call did to the pool
    seenBusy,       \* workers whose flag the call read as false
    \* logs of each worker's queue traffic, kept when logging is true
    logging,        \* whether the logs are kept in this run
    enqLog,         \* the tasks pushed on a worker's queue, in order
    startLog,       \* the tasks whose body the worker entered, in order
    doneLog         \* the tasks whose body returned, in order

progVars == <<pool, m_nThreads, free, functionsQueue, m_mxQueue, wpc, wcur,
              result, readyFlag, nCallers, cpc, ci, scheduled, ctask,
              nextEval, spurious>>
histVars == <<startFree, noFinish, busySeen, stayedFree, claimed, effects,
              seenBusy, logging, enqLog, startLog, doneLog>>
vars == <<progVars, histVars>>

Callers == 1..NCallers
Evals == 0..(NTasks - 1)
Workers == 0..(m_nThreads - 1)
\* The ordinals a worker can have, for the logs.
Ordinals == 0..(NWorkers - 1)
\* The end of the dispatch loop: the model follows it for a prefix of the list.
LoopEnd == IF nCallers = 1 THEN NTasks ELSE NConcTasks

\* Owners of a std::mutex: nobody, the worker thread itself, or a caller c > 0.
Unowned == 0
WorkerThread == -1

\* ------------------------------------------------------------ pure functions
\* C++ integer division truncates toward zero.
CDiv(a, b) ==
    IF (a >= 0) = (b > 0)
        THEN (IF a >= 0 THEN a ELSE -a) \div (IF b > 0 THEN b ELSE -b)
        ELSE -((IF a >= 0 THEN a ELSE -a) \div (IF b > 0 THEN b ELSE -b))

myFunc_1(a, b) == a + b
myFunc_2(a, b) == a - b
myFunc_3(a, b) == a * b
myFunc_4(a, b) == CDiv(a, b)

\* Mutant: the table lists multiply and divide in the other order.
funcs_Swapped(k, a, b) ==
    CASE k = 0 -> myFunc_1(a, b)
      [] k = 1 -> myFunc_2(a, b)
      [] k = 2 -> myFunc_4(a, b)
      [] k = 3 -> myFunc_3(a, b)

\* funcs[k](a, b): the table of function pointers, indexed from 0.
funcs(k, a, b) ==
    CASE k = 0 -> myFunc_1(a, b)
      [] k = 1 -> myFunc_2(a, b)
      [] k = 2 -> myFunc_3(a, b)
      [] k = 3 -> myFunc_4(a, b)

\* The evaluation record main builds for index i.
vEvals(i) == [param1 |-> 2 * i, param2 |-> i, func |-> i % nFuncs]

\* What the closure pushed for evaluation i computes: f(param1, param2).
TaskValue(i) == funcs(vEvals(i).func, vEvals(i).param1, vEvals(i).param2)

\* ------------------------------------------------------------------- Init
\* The state main is in before it constructs the pool.
Start ==
    /\ pool = "none"
    /\ m_nThreads = 0
    /\ free = <<>>
    /\ functionsQueue = <<>>
    /\ m_mxQueue = <<>>
    /\ wpc = <<>>
    /\ wcur = <<>>
    /\ result = [e \in Evals |-> 0]
    /\ readyFlag = [e \in Evals |-> FALSE]
    /\ nCallers \in Callers
    /\ cpc = [c \in Callers |-> "idle"]
    /\ ci = [c \in Callers |-> 0]
    /\ scheduled = [c \in Callers |-> FALSE]
    /\ ctask = [c \in Callers |-> -1]
    /\ nextEval = 0
    /\ spurious = 0
    /\ startFree = [c \in Callers |-> {}]
    /\ noFinish = [c \in Callers |-> TRUE]
    /\ busySeen = [c \in Callers |-> FALSE]
    /\ stayedFree = [c \in Callers |-> {}]
    /\ claimed = [c \in Callers |-> -1]
    /\ effects = [c \in Callers |-> {}]
    /\ seenBusy = [c \in Callers |-> {}]
    /\ enqLog = [w \in Ordinals |-> <<>>]
    /\ startLog = [w \in Ordinals |-> <<>>]
    /\ doneLog = [w \in Ordinals |-> <<>>]

Init == Start /\ logging = FALSE

\* The same program, with the logs of the queue traffic kept.
InitLog == Start /\ logging = TRUE

\* ------------------------------------------------- ThreadPool::ThreadPool
\* reserve(m_nThreads) converts a negative count to a size above max_size and
\* throws std::length_error; otherwise n ThreadManagers are created, each
\* with free = true, an empty queue and a detached thread entering execute.
Construct(n) ==
    /\ pool = "none"
    /\ IF n < 0
         THEN /\ pool' = "threw"
              /\ UNCHANGED <<m_nThreads, free, functionsQueue, m_mxQueue, wpc, wcur>>
         ELSE /\ pool' = "ok"
              /\ m_nThreads' = n
              /\ free' = [w \in 0..(n - 1) |-> TRUE]
              /\ functionsQueue' = [w \in 0..(n - 1) |-> <<>>]
              /\ m_mxQueue' = [w \in 0..(n - 1) |-> Unowned]
              /\ wpc' = [w \in 0..(n - 1) |-> "lock"]
              /\ wcur' = [w \in 0..(n - 1) |-> -1]
    /\ UNCHANGED <<result, readyFlag, nCallers, cpc, ci, scheduled, ctask,
                   nextEval, spurious>>

\* ------------------------------------------ ThreadPool::ThreadManager::execute
\* Mutant: every worker locks the mutex of worker 0 (one mutex for the pool).
WorkerLock_Shared(w) ==
    /\ wpc[w] = "lock"
    /\ m_mxQueue[0] = Unowned
    /\ m_mxQueue' = [m_mxQueue EXCEPT ![0] = WorkerThread]
    /\ wpc' = [wpc EXCEPT ![w] = "check"]
    /\ UNCHANGED <<pool, m_nThreads, free, functionsQueue, wcur, result,
                   readyFlag, nCallers, cpc, ci, scheduled, ctask, nextEval,
                   spurious>>

\* line 88: std::unique_lock<std::mutex> locker(pMngr->m_mxQueue)
WorkerLock(w) ==
    /\ wpc[w] = "lock"
    /\ m_mxQueue[w] = Unowned
    /\ m_mxQueue' = [m_mxQueue EXCEPT ![w] = WorkerThread]
    /\ wpc' = [wpc EXCEPT ![w] = "check"]
    /\ UNCHANGED <<pool, m_nThreads, free, functionsQueue, wcur, result,
                   readyFlag, nCallers, cpc, ci, scheduled, ctask, nextEval,
                   spurious>>

\* Mutant: execute takes back() of the queue instead of front().
WorkerCheck_Back(w) ==
    /\ wpc[w] = "check"
    /\ IF functionsQueue[w] = <<>>
         THEN /\ wpc' = [wpc EXCEPT ![w] = "wait"]
              /\ m_mxQueue' = [m_mxQueue EXCEPT ![w] = Unowned]
              /\ UNCHANGED wcur
         ELSE /\ wpc' = [wpc EXCEPT ![w] = "result"]
              /\ wcur' = [wcur EXCEPT ![w] =
                              functionsQueue[w][Len(functionsQueue[w])]]
              /\ UNCHANGED m_mxQueue
    /\ UNCHANGED <<pool, m_nThreads, free, functionsQueue, result, readyFlag,
                   nCallers, cpc, ci, scheduled, ctask, nextEval, spurious>>

\* lines 89-94: while the queue is empty, wait (which releases the mutex and
\* blocks in one atomic step); otherwise sleep and copy front() into f.
WorkerCheck(w) ==
    /\ wpc[w] = "check"
    /\ IF functionsQueue[w] = <<>>
         THEN /\ wpc' = [wpc EXCEPT ![w] = "wait"]
              /\ m_mxQueue' = [m_mxQueue EXCEPT ![w] = Unowned]
              /\ UNCHANGED wcur
         ELSE /\ wpc' = [wpc EXCEPT ![w] = "result"]
              /\ wcur' = [wcur EXCEPT ![w] = Head(functionsQueue[w])]
              /\ UNCHANGED m_mxQueue
    /\ UNCHANGED <<pool, m_nThreads, free, functionsQueue, result, readyFlag,
                   nCallers, cpc, ci, scheduled, ctask, nextEval, spurious>>

\* line 90: condition_variable::wait may return without a notification.
SpuriousWakeup(w) ==
    /\ wpc[w] = "wait"
    /\ spurious < MaxSpurious
    /\ spurious' = spurious + 1
    /\ wpc' = [wpc EXCEPT ![w] = "relock"]
    /\ UNCHANGED <<pool, m_nThreads, free, functionsQueue, m_mxQueue, wcur,
                   result, readyFlag, nCallers, cpc, ci, scheduled, ctask,
                   nextEval>>

\* line 90: a woken wait re-acquires the mutex before it returns.
WorkerRelock(w) ==
    /\ wpc[w] = "relock"
    /\ m_mxQueue[w] = Unowned
    /\ m_mxQueue' = [m_mxQueue EXCEPT ![w] = WorkerThread]
    /\ wpc' = [wpc EXCEPT ![w] = "check"]
    /\ UNCHANGED <<pool, m_nThreads, free, functionsQueue, wcur, result,
                   readyFlag, nCallers, cpc, ci, scheduled, ctask, nextEval,
                   spurious>>

\* Mutant: the closure does not write result before it sets ready.
WorkerResult_Skip(w) ==
    /\ wpc[w] = "result"
    /\ wpc' = [wpc EXCEPT ![w] = "ready"]
    /\ UNCHANGED <<pool, m_nThreads, free, functionsQueue, m_mxQueue, wcur,
                   result, readyFlag, nCallers, cpc, ci, scheduled, ctask,
                   nextEval, spurious>>

\* lines 95, 60: f() runs the closure, which first writes result.
WorkerResult(w) ==
    /\ wpc[w] = "result"
    /\ result' = [result EXCEPT ![wcur[w]] = TaskValue(wcur[w])]
    /\ wpc' = [wpc EXCEPT ![w] = "ready"]
    /\ UNCHANGED <<pool, m_nThreads, free, functionsQueue, m_mxQueue, wcur,
                   readyFlag, nCallers, cpc, ci, scheduled, ctask, nextEval,
                   spurious>>

\* line 61: the closure then writes ready = true and returns.
WorkerReady(w) ==
    /\ wpc[w] = "ready"
    /\ readyFlag' = [readyFlag EXCEPT ![wcur[w]] = TRUE]
    /\ wpc' = [wpc EXCEPT ![w] = "pop"]
    /\ UNCHANGED <<pool, m_nThreads, free, functionsQueue, m_mxQueue, wcur,
                   result, nCallers, cpc, ci, scheduled, ctask, nextEval,
                   spurious>>

\* Mutant: execute leaves the task it ran on the queue.
WorkerPop_Keep(w) ==
    /\ wpc[w] = "pop"
    /\ wpc' = [wpc EXCEPT ![w] = "setfree"]
    /\ UNCHANGED <<pool, m_nThreads, free, functionsQueue, m_mxQueue, wcur,
                   result, readyFlag, nCallers, cpc, ci, scheduled, ctask,
                   nextEval, spurious>>

\* line 96: pMngr->functionsQueue.pop()
WorkerPop(w) ==
    /\ wpc[w] = "pop"
    /\ functionsQueue' = [functionsQueue EXCEPT ![w] = Tail(@)]
    /\ wpc' = [wpc EXCEPT ![w] = "setfree"]
    /\ UNCHANGED <<pool, m_nThreads, free, m_mxQueue, wcur, result, readyFlag,
                   nCallers, cpc, ci, scheduled, ctask, nextEval, spurious>>

\* Mutant: execute never sets free back to true.
WorkerSetFree_Never(w) ==
    /\ wpc[w] = "setfree"
    /\ wpc' = [wpc EXCEPT ![w] = "unlock"]
    /\ UNCHANGED <<pool, m_nThreads, free, functionsQueue, m_mxQueue, wcur,
                   result, readyFlag, nCallers, cpc, ci, scheduled, ctask,
                   nextEval, spurious>>

\* line 97: pMngr->free = true
WorkerSetFree(w) ==
    /\ wpc[w] = "setfree"
    /\ free' = [free EXCEPT ![w] = TRUE]
    /\ wpc' = [wpc EXCEPT ![w] = "unlock"]
    /\ UNCHANGED <<pool, m_nThreads, functionsQueue, m_mxQueue, wcur, result,
                   readyFlag, nCallers, cpc, ci, scheduled, ctask, nextEval,
                   spurious>>

\* line 98: the end of the loop body destroys f and locker (unlock).
WorkerUnlock(w) ==
    /\ wpc[w] = "unlock"
    /\ m_mxQueue' = [m_mxQueue EXCEPT ![w] = Unowned]
    /\ wcur' = [wcur EXCEPT ![w] = -1]
    /\ wpc' = [wpc EXCEPT ![w] = "lock"]
    /\ UNCHANGED <<pool, m_nThreads, free, functionsQueue, result, readyFlag,
                   nCallers, cpc, ci, scheduled, ctask, nextEval, spurious>>

\* ------------------------------------------------------ main's dispatch loop
\* lines 179-182: take the next evaluation record and call evaluate on it
\* (lines 53-54: scheduled = false, i = 0).
CallerBegin(c) ==
    /\ pool = "ok"
    /\ c <= nCallers
    /\ cpc[c] = "idle"
    /\ nextEval < LoopEnd
    /\ ctask' = [ctask EXCEPT ![c] = nextEval]
    /\ nextEval' = nextEval + 1
    /\ scheduled' = [scheduled EXCEPT ![c] = FALSE]
    /\ ci' = [ci EXCEPT ![c] = 0]
    /\ cpc' = [cpc EXCEPT ![c] = "scan"]
    /\ UNCHANGED <<pool, m_nThreads, free, functionsQueue, m_mxQueue, wpc,
                   wcur, result, readyFlag, nCallers, spurious>>

\* ---------------------------------------------------- ThreadPool::evaluate
\* Mutant: the scan steps over the worker after a busy one.
CallerScan_Skip(c) ==
    /\ cpc[c] = "scan"
    /\ IF ci[c] < m_nThreads
         THEN IF free[ci[c]]
                THEN /\ cpc' = [cpc EXCEPT ![c] = "acquire"]
                     /\ UNCHANGED ci
                ELSE /\ ci' = [ci EXCEPT ![c] = @ + 2]
                     /\ UNCHANGED cpc
         ELSE /\ cpc' = [cpc EXCEPT ![c] = "ret"]
              /\ UNCHANGED ci
    /\ UNCHANGED <<pool, m_nThreads, free, functionsQueue, m_mxQueue, wpc,
                   wcur, result, readyFlag, nCallers, scheduled, ctask,
                   nextEval, spurious>>

\* lines 54-55: the loop test and the test of free, made without the mutex.
CallerScan(c) ==
    /\ cpc[c] = "scan"
    /\ IF ci[c] < m_nThreads
         THEN IF free[ci[c]]
                THEN /\ cpc' = [cpc EXCEPT ![c] = "acquire"]
                     /\ UNCHANGED ci
                ELSE /\ ci' = [ci EXCEPT ![c] = @ + 1]
                     /\ UNCHANGED cpc
         ELSE /\ cpc' = [cpc EXCEPT ![c] = "ret"]
              /\ UNCHANGED ci
    /\ UNCHANGED <<pool, m_nThreads, free, functionsQueue, m_mxQueue, wpc,
                   wcur, result, readyFlag, nCallers, scheduled, ctask,
                   nextEval, spurious>>

\* line 56: std::unique_lock<std::mutex> locker(m_vpThreads.at(i)->m_mxQueue)
CallerAcquire(c) ==
    /\ cpc[c] = "acquire"
    /\ m_mxQueue[ci[c]] = Unowned
    /\ m_mxQueue' = [m_mxQueue EXCEPT ![ci[c]] = c]
    /\ cpc' = [cpc EXCEPT ![c] = "flip"]
    /\ UNCHANGED <<pool, m_nThreads, free, functionsQueue, wpc, wcur, result,
                   readyFlag, nCallers, ci, scheduled, ctask, nextEval,
                   spurious>>

\* Mutant: evaluate leaves free true when it schedules.
CallerFlip_KeepFree(c) ==
    /\ cpc[c] = "flip"
    /\ scheduled' = [scheduled EXCEPT ![c] = TRUE]
    /\ cpc' = [cpc EXCEPT ![c] = "push"]
    /\ UNCHANGED <<pool, m_nThreads, free, functionsQueue, m_mxQueue, wpc,
                   wcur, result, readyFlag, nCallers, ci, ctask, nextEval,
                   spurious>>

\* Mutant: evaluate does not record that it scheduled.
CallerFlip_NoScheduled(c) ==
    /\ cpc[c] = "flip"
    /\ free' = [free EXCEPT ![ci[c]] = FALSE]
    /\ cpc' = [cpc EXCEPT ![c] = "push"]
    /\ UNCHANGED <<pool, m_nThreads, functionsQueue, m_mxQueue, wpc, wcur,
                   result, readyFlag, nCallers, ci, scheduled, ctask, nextEval,
                   spurious>>

\* lines 57-58: free = false; scheduled = true
CallerFlip(c) ==
    /\ cpc[c] = "flip"
    /\ free' = [free EXCEPT ![ci[c]] = FALSE]
    /\ scheduled' = [scheduled EXCEPT ![c] = TRUE]
    /\ cpc' = [cpc EXCEPT ![c] = "push"]
    /\ UNCHANGED <<pool, m_nThreads, functionsQueue, m_mxQueue, wpc, wcur,
                   result, readyFlag, nCallers, ci, ctask, nextEval, spurious>>

\* lines 59-62: functionsQueue.push(closure)
CallerPush(c) ==
    /\ cpc[c] = "push"
    /\ functionsQueue' = [functionsQueue EXCEPT ![ci[c]] = Append(@, ctask[c])]
    /\ cpc' = [cpc EXCEPT ![c] = "notify"]
    /\ UNCHANGED <<pool, m_nThreads, free, m_mxQueue, wpc, wcur, result,
                   readyFlag, nCallers, ci, scheduled, ctask, nextEval,
                   spurious>>

\* Mutant: the notification is not delivered.
CallerNotify_Lost(c) ==
    /\ cpc[c] = "notify"
    /\ cpc' = [cpc EXCEPT ![c] = "unlock"]
    /\ UNCHANGED <<pool, m_nThreads, free, functionsQueue, m_mxQueue, wpc,
                   wcur, result, readyFlag, nCallers, ci, scheduled, ctask,
                   nextEval, spurious>>

\* line 63: m_cvNewFunc.notify_one() wakes the worker if it is blocked in
\* wait, and does nothing otherwise.
CallerNotify(c) ==
    /\ cpc[c] = "notify"
    /\ wpc' = [wpc EXCEPT ![ci[c]] = IF @ = "wait" THEN "relock" ELSE @]
    /\ cpc' = [cpc EXCEPT ![c] = "unlock"]
    /\ UNCHANGED <<pool, m_nThreads, free, functionsQueue, m_mxQueue, wcur,
                   result, readyFlag, nCallers, ci, scheduled, ctask, nextEval,
                   spurious>>

\* Mutant: the break at line 64 is missing, so the scan goes on after the
\* task was enqueued.
CallerUnlock_NoBreak(c) ==
    /\ cpc[c] = "unlock"
    /\ m_mxQueue' = [m_mxQueue EXCEPT ![ci[c]] = Unowned]
    /\ ci' = [ci EXCEPT ![c] = @ + 1]
    /\ cpc' = [cpc EXCEPT ![c] = "scan"]
    /\ UNCHANGED <<pool, m_nThreads, free, functionsQueue, wpc, wcur, result,
                   readyFlag, nCallers, scheduled, ctask, nextEval, spurious>>

\* Mutant: evaluate returns without releasing the worker's mutex.
CallerUnlock_Keep(c) ==
    /\ cpc[c] = "unlock"
    /\ cpc' = [cpc EXCEPT ![c] = "ret"]
    /\ UNCHANGED <<pool, m_nThreads, free, functionsQueue, m_mxQueue, wpc,
                   wcur, result, readyFlag, nCallers, ci, scheduled, ctask,
                   nextEval, spurious>>

\* lines 64-67: break leaves the block, which destroys locker (unlock), and
\* evaluate returns scheduled.
CallerUnlock(c) ==
    /\ cpc[c] = "unlock"
    /\ m_mxQueue' = [m_mxQueue EXCEPT ![ci[c]] = Unowned]
    /\ cpc' = [cpc EXCEPT ![c] = "ret"]
    /\ UNCHANGED <<pool, m_nThreads, free, functionsQueue, wpc, wcur, result,
                   readyFlag, nCallers, ci, scheduled, ctask, nextEval,
                   spurious>>

\* lines 181-183: evaluate returned false, so main calls it again.
CallerRetry(c) ==
    /\ cpc[c] = "ret"
    /\ ~scheduled[c]
    /\ ci' = [ci EXCEPT ![c] = 0]
    /\ cpc' = [cpc EXCEPT ![c] = "scan"]
    /\ UNCHANGED <<pool, m_nThreads, free, functionsQueue, m_mxQueue, wpc,
                   wcur, result, readyFlag, nCallers, scheduled, ctask,
                   nextEval, spurious>>

\* lines 183-184: evaluate returned true, the do-while ends.
CallerDone(c) ==
    /\ cpc[c] = "ret"
    /\ scheduled[c]
    /\ cpc' = [cpc EXCEPT ![c] = "idle"]
    /\ UNCHANGED <<pool, m_nThreads, free, functionsQueue, m_mxQueue, wpc,
                   wcur, result, readyFlag, nCallers, ci, scheduled, ctask,
                   nextEval, spurious>>

\* ------------------------------------------------------------ observations
\* The history variables record, for the evaluate call each caller is in,
\* facts about the states the call has passed through.  They are functions of
\* the program's steps and are read by no action.
InCall(c) == cpc[c] \in {"scan", "acquire", "flip", "push", "notify", "unlock"}
Starts(c) == cpc[c] \in {"idle", "ret"} /\ cpc'[c] = "scan"
Ends(c) == cpc'[c] = "idle"
AllBusy == \A w \in Workers : ~free[w]
FreeSet == {w \in Workers : free[w]}

History ==
    /\ startFree' = [c \in Callers |->
          IF Starts(c) THEN FreeSet
          ELSE IF Ends(c) THEN {} ELSE startFree[c]]
    /\ noFinish' = [c \in Callers |->
          IF Starts(c) \/ Ends(c) THEN TRUE
          ELSE IF InCall(c)
             THEN noFinish[c] /\ ~(\E w \in Workers : ~free[w] /\ free'[w])
             ELSE noFinish[c]]
    /\ busySeen' = [c \in Callers |->
          IF Starts(c) THEN AllBusy'
          ELSE IF Ends(c) THEN FALSE
          ELSE IF InCall(c) THEN busySeen[c] \/ AllBusy'
          ELSE busySeen[c]]
    /\ stayedFree' = [c \in Callers |->
          IF Starts(c) THEN FreeSet'
          ELSE IF Ends(c) THEN {}
          ELSE IF InCall(c) THEN stayedFree[c] \cap FreeSet'
          ELSE stayedFree[c]]
    /\ claimed' = [c \in Callers |->
          IF Starts(c) \/ Ends(c) THEN -1
          ELSE IF cpc[c] = "flip" /\ cpc'[c] = "push" THEN ci[c]
          ELSE claimed[c]]
    /\ effects' = [c \in Callers |->
          IF Starts(c) \/ Ends(c) THEN {}
          ELSE IF cpc[c] = "acquire" /\ cpc'[c] = "flip" THEN effects[c] \cup {"lock"}
          ELSE IF cpc[c] = "flip" /\ cpc'[c] = "push" THEN effects[c] \cup {"flag"}
          ELSE IF cpc[c] = "push" /\ cpc'[c] = "notify" THEN effects[c] \cup {"queue"}
          ELSE IF cpc[c] = "notify" /\ cpc'[c] = "unlock" THEN effects[c] \cup {"notify"}
          ELSE effects[c]]
    /\ seenBusy' = [c \in Callers |->
          IF Starts(c) \/ Ends(c) THEN {}
          ELSE IF /\ cpc[c] = "scan" /\ ci[c] < m_nThreads
                  /\ (cpc'[c] # "scan" \/ ci'[c] # ci[c])
                  /\ ~free[ci[c]]
             THEN seenBusy[c] \cup {ci[c]}
             ELSE seenBusy[c]]
    /\ logging' = logging
    /\ enqLog' = [w \in Ordinals |->
          IF /\ logging /\ w \in Workers
             /\ Len(functionsQueue'[w]) > Len(functionsQueue[w])
             THEN Append(enqLog[w], functionsQueue'[w][Len(functionsQueue'[w])])
             ELSE enqLog[w]]
    /\ startLog' = [w \in Ordinals |->
          IF logging /\ w \in Workers /\ wpc[w] = "check" /\ wpc'[w] = "result"
             THEN Append(startLog[w], wcur'[w])
             ELSE startLog[w]]
    /\ doneLog' = [w \in Ordinals |->
          IF logging /\ w \in Workers /\ wpc[w] = "ready" /\ wpc'[w] = "pop"
             THEN Append(doneLog[w], wcur[w])
             ELSE doneLog[w]]

\* ------------------------------------------------------------------- Next
WorkerStep(w) ==
    \/ WorkerLock(w)
    \/ WorkerCheck(w)
    \/ WorkerRelock(w)
    \/ WorkerResult(w)
    \/ WorkerReady(w)
    \/ WorkerPop(w)
    \/ WorkerSetFree(w)
    \/ WorkerUnlock(w)

\* The steps of evaluate that follow the test of free.
CriticalStep(c) ==
    \/ CallerAcquire(c)
    \/ CallerFlip(c)
    \/ CallerPush(c)
    \/ CallerNotify(c)
    \/ CallerUnlock(c)

CallerStep(c) ==
    \/ CallerBegin(c)
    \/ CallerScan(c)
    \/ CriticalStep(c)
    \/ CallerRetry(c)
    \/ CallerDone(c)

Next ==
    \/ \E n \in (-1)..NWorkers : Construct(n) /\ History
    \/ \E w \in Workers : WorkerLock(w) /\ History
    \/ \E w \in Workers : WorkerCheck(w) /\ History
    \/ \E w \in Workers : SpuriousWakeup(w) /\ History
    \/ \E w \in Workers : WorkerRelock(w) /\ History
    \/ \E w \in Workers : WorkerResult(w) /\ History
    \/ \E w \in Workers : WorkerReady(w) /\ History
    \/ \E w \in Workers : WorkerPop(w) /\ History
    \/ \E w \in Workers : WorkerSetFree(w) /\ History
    \/ \E w \in Workers : WorkerUnlock(w) /\ History
    \/ \E c \in Callers : CallerBegin(c) /\ History
    \/ \E c \in Callers : CallerScan(c) /\ History
    \/ \E c \in Callers : CallerAcquire(c) /\ History
    \/ \E c \in Callers : CallerFlip(c) /\ History
    \/ \E c \in Callers : CallerPush(c) /\ History
    \/ \E c \in Callers : CallerNotify(c) /\ History
    \/ \E c \in Callers : CallerUnlock(c) /\ History
    \/ \E c \in Callers : CallerRetry(c) /\ History
    \/ \E c \in Callers : CallerDone(c) /\ History

Spec == Init /\ [][Next]_vars

\* The program as main runs it: one thread dispatches.  Every thread that can
\* take a step eventually takes one; a spurious wake-up is never forced.
InitMain == Init /\ nCallers = 1

Fairness ==
    /\ WF_vars(\E n \in 0..NWorkers : Construct(n) /\ History)
    /\ \A w \in 0..(NWorkers - 1) :
          WF_vars(w \in Workers /\ WorkerStep(w) /\ History)
    /\ \A c \in Callers : WF_vars(CallerStep(c) /\ History)

FairSpec == InitMain /\ [][Next]_vars /\ Fairness

\* One or several dispatching threads, with the logs kept.
SpecLog == InitLog /\ [][Next]_vars

\* ================================================================= claims
InQueue(e) == \E w \in Workers : \E k \in 1..Len(functionsQueue[w]) : functionsQueue[w][k] = e
Running(e) == \E w \in Workers : wpc[w] \in {"result", "ready"} /\ wcur[w] = e
Returned(c) == cpc[c] = "ret"

\* C1 (as stated): of two concurrent evaluate calls issued against the same K
\* free workers, K < 2, with no worker finishing a task meanwhile, exactly K
\* return true and the successful calls claim different workers.
C1_AtMostOneClaim ==
    \A c1 \in Callers : \A c2 \in Callers :
        ( /\ c1 < c2
          /\ Returned(c1) /\ Returned(c2)
          /\ noFinish[c1] /\ noFinish[c2]
          /\ startFree[c1] = startFree[c2]
          /\ Cardinality(startFree[c1]) < 2 )
        => /\ Cardinality({c \in {c1, c2} : scheduled[c]}) = Cardinality(startFree[c1])
           /\ (scheduled[c1] /\ scheduled[c2] => claimed[c1] # claimed[c2])

\* C2: with one worker and one caller, a call that begins while the flag is
\* true returns true (the first dispatch, and a dispatch after the worker set
\* the flag back), and a call that returns while the previously dispatched
\* task has not completed returns false.
C2_SaturationRecovery ==
    (nCallers = 1 /\ m_nThreads = 1 /\ Returned(1)) =>
        /\ (startFree[1] = {0} => scheduled[1])
        /\ (ctask[1] >= 1 /\ ~readyFlag[ctask[1] - 1] => ~scheduled[1])

\* C2 witness: the second task is accepted by a call that began after the
\* worker completed the first task and set its flag back to true.
C2_Witness ==
    /\ nCallers = 1 /\ m_nThreads = 1 /\ Returned(1)
    /\ ctask[1] = 1 /\ startFree[1] = {0} /\ scheduled[1] /\ readyFlag[0]

\* C3: a ready flag that is true implies the result slot holds the task's
\* function applied to the task's inputs.
C3_ReadyImpliesResult ==
    \A e \in Evals :
        readyFlag[e] =>
            result[e] = funcs(vEvals(e).func, vEvals(e).param1, vEvals(e).param2)

\* C3 witness: a task with a non-zero value is ready.
C3_Witness == \E e \in Evals : readyFlag[e] /\ result[e] # 0

\* C4: under fair scheduling every task that is on a worker's queue is
\* eventually executed.
C4_NoLostWakeup ==
    \A e \in Evals : InQueue(e) ~> readyFlag[e]

\* C4 witness: a caller is about to enqueue on a worker that has passed its
\* emptiness check and is entering the wait.
C4_Witness ==
    \E c \in Callers : \E w \in Workers :
        /\ cpc[c] = "acquire" /\ ci[c] = w
        /\ wpc[w] = "check" /\ functionsQueue[w] = <<>>

\* The dispatch loop has ended and every dispatched task is ready with its value.
AllDone ==
    /\ nextEval = LoopEnd
    /\ \A c \in Callers : cpc[c] = "idle"
    /\ \A e \in 0..(LoopEnd - 1) : readyFlag[e] /\ result[e] = TaskValue(e)

\* C5: with one caller and at least one worker, under fair scheduling every
\* retry loop ends and every dispatched task becomes ready with its value.
C5_Termination ==
    (nCallers = 1 /\ pool = "ok" /\ m_nThreads >= 1) ~> AllDone

\* C5 witness: the single caller has dispatched every task, after at least
\* one rejected call, and all are done.
C5_Witness == nCallers = 1 /\ m_nThreads = 1 /\ AllDone

\* C6: a call that returns false has taken no lock, changed no flag, enqueued
\* nothing and notified nobody, and its task is on no queue and not executed.
C6_FalseLeavesPool ==
    \A c \in Callers :
        (Returned(c) /\ ~scheduled[c]) =>
            /\ effects[c] = {}
            /\ claimed[c] = -1
            /\ ~InQueue(ctask[c])
            /\ ~Running(ctask[c])
            /\ ~readyFlag[ctask[c]]
            /\ \A w \in Workers : m_mxQueue[w] # c

\* C6 witness: a call returned false on a pool that has workers.
C6_Witness == \E c \in Callers : Returned(c) /\ ~scheduled[c] /\ m_nThreads >= 1

\* C7 (as stated): a call that returns false passed through an instant at
\* which every flag was false, and no worker stayed free for the whole call.
C7_AllBusyInstant ==
    \A c \in Callers :
        (Returned(c) /\ ~scheduled[c]) => (busySeen[c] /\ stayedFree[c] = {})

\* C7 (amended): a call that returns false found every worker's flag false at
\* some instant of the call, each worker at its own instant: no worker's flag
\* was true for the whole duration of the call.
C7_NoWorkerStayedFree ==
    \A c \in Callers :
        (Returned(c) /\ ~scheduled[c]) => stayedFree[c] = {}

\* C7 witness: a call returned false although the flags were never all false
\* at one instant of it.
C7_Witness ==
    \E c \in Callers : Returned(c) /\ ~scheduled[c] /\ ~busySeen[c] /\ m_nThreads = 2

\* C8 (as stated): no thread inside evaluate waits for a worker's mutex while
\* that worker executes a task body.
C8_NonBlocking ==
    \A c \in Callers : \A w \in Workers :
        ~( /\ cpc[c] = "acquire" /\ ci[c] = w
           /\ m_mxQueue[w] = WorkerThread
           /\ wpc[w] \in {"result", "ready"} )

\* C9 (as stated): no pool with fewer than one worker is ever constructed.
C9_NoEmptyPool == pool = "ok" => m_nThreads >= 1

\* C10 (as stated): task 3 uses multiply (funcs[2]) and its result ends as 18.
C10_TaskThreeMultiply ==
    readyFlag[3] => (vEvals(3).func = 2 /\ result[3] = 18)

\* C10 (amended): task i has inputs (2i, i); task 3 uses divide (funcs[3]) and
\* its result ends as 6 / 3 = 2.
C10_TaskThreeDivide ==
    /\ \A e \in Evals : vEvals(e).param1 = 2 * e /\ vEvals(e).param2 = e
    /\ readyFlag[3] => (vEvals(3).func = 3 /\ result[3] = 2)

\* C10 witness: task 3 has run to completion.
C10_Witness == readyFlag[3] /\ nextEval = NTasks

\* Positions of execute and of evaluate at which the thread holds a mutex.
WorkerHolds(w) == wpc[w] \in {"check", "result", "ready", "pop", "setfree", "unlock"}
CallerHolds(c) == cpc[c] \in {"flip", "push", "notify", "unlock"}
Executing(w) == wpc[w] \in {"result", "ready"}

\* C11 (as stated): no thread is about to read a worker's flag without holding
\* that worker's mutex while another thread is about to write the flag.
C11_FlagUnderLock ==
    \A c \in Callers : \A w \in Workers :
        (cpc[c] = "scan" /\ ci[c] = w /\ m_mxQueue[w] # c) =>
            /\ wpc[w] # "setfree"
            /\ \A c2 \in Callers : ~(c2 # c /\ cpc[c2] = "flip" /\ ci[c2] = w)

\* C12 (as stated): no worker holds its queue mutex while it executes a task
\* body.
C12_BodyWithoutLock ==
    \A w \in Workers : Executing(w) => m_mxQueue[w] # WorkerThread

\* C13 (as stated, read in the states in which nobody holds the worker's
\* mutex, the only states in which flag and queue may be looked at together):
\* the flag is true if and only if the queue is empty and no task is executing.
C13_Availability ==
    \A w \in Workers :
        m_mxQueue[w] = Unowned =>
            (free[w] <=> (functionsQueue[w] = <<>> /\ ~Executing(w)))

\* C14 (as stated): a caller flips and enqueues only on a worker whose flag is
\* true and whose queue is empty, so every queue holds at most one task.
C14_AtMostOneQueued ==
    /\ \A w \in Workers : Len(functionsQueue[w]) <= 1
    /\ \A c \in Callers :
          cpc[c] = "flip" => (free[ci[c]] /\ functionsQueue[ci[c]] = <<>>)

\* C15 (as stated): when a worker's flag goes from false to true, no task that
\* was enqueued on that worker is still on its queue or uncompleted.
C15_FreeOnlyAfterBody ==
    [][\A w \in Workers :
          (~free[w] /\ free'[w]) =>
              /\ functionsQueue[w] = <<>>
              /\ wcur[w] >= 0 /\ readyFlag[wcur[w]]]_vars

\* C18: a mutex is held only by its own worker inside execute or by a caller
\* that is dispatching to that worker, so a thread that waits for the mutex of
\* worker j never waits for a task that runs on another worker.
C18_Independent ==
    \A w \in Workers :
        /\ m_mxQueue[w] = WorkerThread <=> WorkerHolds(w)
        /\ \A c \in Callers : m_mxQueue[w] = c <=> (CallerHolds(c) /\ ci[c] = w)

\* C18 witness: two workers execute task bodies at the same time, a caller is
\* past the busy worker 0, and task 1 has completed on worker 1 while task 0,
\* dispatched before it, has not.
C18_Witness ==
    /\ m_nThreads = 2 /\ Executing(0) /\ Executing(1)
    /\ wcur[0] = 0 /\ ~readyFlag[0] /\ readyFlag[1] /\ wcur[1] = 2

\* C20 (as stated): a caller holds at most one mutex, a mutex holder is never
\* itself blocked, and a worker blocked in the wait has an empty queue.
C20_WaitHasEmptyQueue ==
    /\ \A c \in Callers : Cardinality({w \in Workers : m_mxQueue[w] = c}) <= 1
    /\ \A w \in Workers : m_mxQueue[w] # Unowned =>
          (WorkerHolds(w) \/ \E c \in Callers : CallerHolds(c) /\ ci[c] = w)
    /\ \A w \in Workers : wpc[w] = "wait" => functionsQueue[w] = <<>>

\* C20 (amended): a caller holds at most one mutex, a mutex holder is at a
\* position from which it runs on to its unlock without waiting, and a worker
\* blocked in the wait has an empty queue unless a caller that holds its mutex
\* has pushed and is about to notify it.
C20_NoWaitCycle ==
    /\ \A c \in Callers : Cardinality({w \in Workers : m_mxQueue[w] = c}) <= 1
    /\ \A w \in Workers : m_mxQueue[w] # Unowned =>
          \/ m_mxQueue[w] = WorkerThread /\ WorkerHolds(w)
          \/ \E c \in Callers : m_mxQueue[w] = c /\ CallerHolds(c) /\ ci[c] = w
    /\ \A w \in Workers :
          (wpc[w] = "wait" /\ functionsQueue[w] # <<>>) =>
              \E c \in Callers : cpc[c] = "notify" /\ ci[c] = w /\ m_mxQueue[w] = c

\* C20 witness: a caller waits for a mutex that the worker holds while it
\* executes, and another worker is blocked in the wait with a pushed task.
C20_Witness ==
    /\ \E c \in Callers : \E w \in Workers :
          cpc[c] = "acquire" /\ ci[c] = w /\ m_mxQueue[w] = WorkerThread
    /\ \E w \in Workers : wpc[w] = "wait" /\ functionsQueue[w] # <<>>

\* s is an initial segment of t.
IsPrefix(s, t) == Len(s) <= Len(t) /\ \A k \in 1..Len(s) : s[k] = t[k]
\* The places at which task e occurs in the logs of all workers.
Places(log, e) == {p \in Ordinals \X (1..NTasks) : p[2] <= Len(log[p[1]]) /\ log[p[1]][p[2]] = e}

\* C16: on every worker the task bodies are entered in the order in which the
\* tasks were pushed and return in the order in which they were entered, and
\* at most one body of a worker is running, exactly while the worker is
\* between entering and leaving it.
C16_FifoPerWorker ==
    \A w \in Workers :
        /\ IsPrefix(startLog[w], enqLog[w])
        /\ IsPrefix(doneLog[w], startLog[w])
        /\ Len(startLog[w]) - Len(doneLog[w]) = (IF Executing(w) THEN 1 ELSE 0)

\* C16 witness: task 1 was pushed on a worker before task 0, both were on its
\* queue together, and both have run, task 1 first.
C16_Witness ==
    \E w \in Workers : enqLog[w] = <<1, 0>> /\ doneLog[w] = <<1, 0>>

\* C17: a call that returned true flipped and enqueued on one worker i, it
\* read the flag of exactly the workers below i, each as false, its scan
\* stopped at i, and its task is on no other worker.
C17_FirstFreeWins ==
    \A c \in Callers :
        (Returned(c) /\ scheduled[c]) =>
            /\ claimed[c] \in Workers
            /\ ci[c] = claimed[c]
            /\ seenBusy[c] = 0..(claimed[c] - 1)
            /\ effects[c] = {"lock", "flag", "queue", "notify"}
            /\ \A w \in Workers \ {claimed[c]} :
                  /\ m_mxQueue[w] # c
                  /\ wcur[w] # ctask[c]
                  /\ \A k \in 1..Len(functionsQueue[w]) : functionsQueue[w][k] # ctask[c]

\* C17 witness: a call returned true for worker 1 after it read worker 0 as
\* busy.
C17_Witness ==
    \E c \in Callers : Returned(c) /\ scheduled[c] /\ claimed[c] = 1 /\ seenBusy[c] = {0}

\* C19: every task is pushed at most once and its body entered at most once,
\* on the worker it was pushed on; a pushed task belongs to a call in which
\* scheduled is true or which has returned true; a body is entered only for a
\* pushed task; and a result or ready slot is written only by its own task.
C19_ExactlyOnce ==
    \A e \in Evals :
        /\ Cardinality(Places(enqLog, e)) <= 1
        /\ Cardinality(Places(startLog, e)) <= 1
        /\ \A p \in Places(startLog, e) : p \in Places(enqLog, e)
        /\ Places(enqLog, e) # {} =>
              /\ e < nextEval
              /\ \A c \in Callers : (ctask[c] = e /\ cpc[c] # "idle") => scheduled[c]
        /\ (Running(e) \/ readyFlag[e] \/ result[e] # 0) => Places(startLog, e) # {}
        /\ readyFlag[e] => Places(doneLog, e) # {}
        /\ result[e] \in {0, TaskValue(e)}

\* C19 witness: a call has returned true, with two callers at work, and its
\* task has run to completion.
C19_Witness ==
    /\ nCallers = 2
    /\ \E c \in Callers : Returned(c) /\ scheduled[c] /\ readyFlag[ctask[c]]
                           /\ result[ctask[c]] # 0

====
